---------------------------- MODULE Spec2Model ----------------------------
(***************************************************************************)
(* UniEats backend (src/server.js, the cross-origin version, lines         *)
(* 135-343): the OpenID Connect verify callback that reconciles a provider *)
(* profile with the users table, the passport session binding, and the     *)
(* routes /login, /auth/openid/return, /api/user and /logout.              *)
(*                                                                         *)
(* Every `await db.query(...)` is an interleaving point: the statement     *)
(* executes atomically in the database when its action fires, and the code *)
(* that follows it up to the next await (or the response) runs in the same *)
(* action.  express-session and passport are modelled by their documented  *)
(* behaviour: a request without a live session gets a freshly generated    *)
(* one that is stored at the end of the request (saveUninitialized: true), *)
(* req.logIn regenerates the session before serializeUser, done(err)       *)
(* reaches Express' error handler (HTTP 500), done(null, false) and a      *)
(* rejected handshake take failureRedirect.                                *)
(***************************************************************************)
EXTENDS Integers, FiniteSets, Sequences, TLC

\* ------------------------------------------------------------- bounds
MaxSessions == 3      \* session identifiers the store can ever hand out
MaxTime     == 1      \* ticks of the database clock behind NOW()
MaxUsers    == 3      \* values the users.id sequence can hand out

Procs      == {1, 2}               \* concurrent POST /auth/openid/return requests
SessionIds == 1..MaxSessions

\* ------------------------------------------------------------- profiles
\* A provider profile as the verify callback reads it; "" stands for a
\* field that is missing or empty (both are falsy in the source).
Profile(oid, upn, jsonEmail, email0, displayName) ==
    [oid |-> oid, upn |-> upn, jsonEmail |-> jsonEmail, email0 |-> email0,
     displayName |-> displayName]

NoProfile == Profile("", "", "", "", "")

Profiles ==
    { Profile("o1", "a@x", "",    "",    "Ann"),    \* first login of o1
      Profile("o1", "",    "b@x", "a@x", "Bea"),    \* o1 again, email and name drifted
      Profile("o2", "",    "",    "c@x", ""),       \* o2, emails list only, no name
      Profile("",   "a@x", "",    "",    "Ann"),    \* no oid
      Profile("o1", "",    "",    "",    "Ann") }   \* no upn, no email at all

\* Every profile over one value and the missing value for each field the
\* verify callback reads.
AllProfiles ==
    { Profile(oid, upn, jsonEmail, email0, displayName) :
        oid \in {"", "o1"}, upn \in {"", "a@x"}, jsonEmail \in {"", "b@x"},
        email0 \in {"", "c@x"}, displayName \in {"", "Ann"} }

DefaultName == "UniEats User"

\* const azureOid = profile.oid
AzureOid(prof) == prof.oid

\* An extraction that prefers the emails list to upn.
EmailListFirst(prof) ==
    IF prof.email0 # "" THEN prof.email0
    ELSE IF prof.jsonEmail # "" THEN prof.jsonEmail
    ELSE prof.upn

\* const email = profile.upn || profile._json?.email || profile.emails?.[0]?.value
Email(prof) ==
    IF prof.upn # "" THEN prof.upn
    ELSE IF prof.jsonEmail # "" THEN prof.jsonEmail
    ELSE prof.email0

\* const name = profile.displayName || 'UniEats User'
Name(prof) == IF prof.displayName # "" THEN prof.displayName ELSE DefaultName

MissingIdentifierLax(prof) == AzureOid(prof) = "" /\ Email(prof) = ""
\* if (!azureOid || !email)
MissingIdentifier(prof) == AzureOid(prof) = "" \/ Email(prof) = ""

\* The ExternalIdentity a profile carries.
Ident(prof) == [oid |-> AzureOid(prof), email |-> Email(prof), name |-> Name(prof)]

\* ------------------------------------------------------------- state
VARIABLES
    users,     \* rows of the users table
    nextId,    \* next value of the users.id sequence
    now,       \* the database clock as the last NOW() read it
    store,     \* the session store: session id -> [st, user]
    cb,        \* per callback request: where its verify callback stands
    api,       \* the GET /api/user request in flight, if any
    resp       \* the response the last step sent, NoResponse when it sent none

vars == <<users, nextId, now, store, cb, api, resp>>

NoRow == [id |-> 0, azure_oid |-> "", email |-> "", name |-> "", role |-> "",
          updated_at |-> 0]

NoBody == [id |-> 0, name |-> "", email |-> "", role |-> ""]

DefaultRole == "customer"

Unused    == [st |-> "unused", user |-> 0]
Destroyed == [st |-> "destroyed", user |-> 0]
\* An active session; user is session.passport.user, 0 when it is not set.
Active(uid) == [st |-> "active", user |-> uid]

\* A callback request: pc is the query its verify callback awaits, prof the
\* profile it was given, id the user.id of the row its SELECT found (all the
\* callback reads of that row once it has compared name and email).
Idle == [pc |-> "idle", prof |-> NoProfile, id |-> 0]

\* The GET /api/user request: sid is the session it carried, uid the
\* session.passport.user it loaded.
ApiIdle == [pc |-> "idle", sid |-> 0, uid |-> 0]

FrontendUrl  == "FRONTEND_URL"
Dashboard    == "FRONTEND_URL/dashboard"
LoginFailed  == "/login-failed"
IdpAuthorize == "login.microsoftonline.com"

\* A response.  status, loc (the Location of a redirect), session (the
\* ?session= parameter) and body (the JSON user object) are what the client
\* sees; route, sid (the session cookie an /api/user or /logout request, or
\* one whose user could not be deserialized, carried; 0 for none), prof (the
\* profile the verify callback was given), user (req.user: the row a
\* callback logged in, the row deserialized for a /logout) and why record
\* the request that produced it.
Response(route, status, loc, session, body, sid, prof, user, why) ==
    [route |-> route, status |-> status, loc |-> loc, session |-> session,
     body |-> body, sid |-> sid, prof |-> prof, user |-> user, why |-> why]

NoResponse == Response("", 0, "", 0, NoBody, 0, NoProfile, NoRow, "")

\* ------------------------------------------------------------- directory
\* SELECT * FROM users WHERE azure_oid = $1, then userResult.rows[0]
RowsByOid(oid) == {u \in users : u.azure_oid = oid}

FirstRow(rows) ==
    IF rows = {} THEN NoRow
    ELSE CHOOSE u \in rows : \A v \in rows : u.id <= v.id

SelectByOid(oid) == FirstRow(RowsByOid(oid))

\* A lookup that ignores the id it is given.
SelectAny(id) == FirstRow(users)

\* SELECT * FROM users WHERE id = $1, then userResult.rows[0]
SelectById(id) == FirstRow({u \in users : u.id = id})

\* The users table is "keyed by a unique external subject id": an INSERT of
\* an azure_oid that a row already holds is rejected by the storage layer.
UniqueViolation(oid) == \E u \in users : u.azure_oid = oid

\* NOW(): the clock never runs backwards; a statement that writes a row
\* reads it at or after the previous reading.
ClockRead == now' \in now..MaxTime

InsertedRowSwapped(oid, email, name) ==
    [id |-> nextId, azure_oid |-> email, email |-> oid, name |-> name,
     role |-> DefaultRole, updated_at |-> now']
\* INSERT INTO users (azure_oid, email, name) VALUES ($1, $2, $3) RETURNING *
InsertedRow(oid, email, name) ==
    [id |-> nextId, azure_oid |-> oid, email |-> email, name |-> name,
     role |-> DefaultRole, updated_at |-> now']

\* An UPDATE that also rewrites the subject column.
UpdatedRowRekeyed(user, name, email) ==
    [user EXCEPT !.name = name, !.email = email, !.azure_oid = email,
                 !.updated_at = now']

\* An UPDATE that sets the email and leaves the name.
UpdatedRowEmailOnly(user, name, email) ==
    [user EXCEPT !.email = email, !.updated_at = now']

UpdatedRowNameOnly(user, name, email) ==
    [user EXCEPT !.name = name, !.updated_at = now']
\* UPDATE users SET name = $1, email = $2, updated_at = NOW() WHERE id = $3
\*   RETURNING *, with [name, email, user.id]
UpdatedRow(user, name, email) ==
    [user EXCEPT !.name = name, !.email = email, !.updated_at = now']

NeedsUpdateAlways(user, name, email) == TRUE
\* if (user.name !== name || user.email !== email)
NeedsUpdate(user, name, email) == user.name # name \/ user.email # email

\* ------------------------------------------------------------- sessions
\* The session cookie a request may carry: none (0), or an identifier the
\* store has handed out, whether its session is still live or not.
Cookies == {0} \cup {s \in SessionIds : store[s].st # "unused"}

IsActive(c) == c \in SessionIds /\ store[c].st = "active"

\* session.passport.user of the session a cookie names, 0 when the session
\* is not live or holds no user.
PassportUser(c) == IF IsActive(c) THEN store[c].user ELSE 0

HasFresh == \E s \in SessionIds : store[s].st = "unused"

\* The identifier express-session generates next.
Fresh == CHOOSE s \in SessionIds :
            store[s].st = "unused" /\ \A t \in SessionIds : t < s => store[t].st # "unused"

\* The store after a request that neither logs in nor out: a newly generated
\* session is saved at the end of the response (saveUninitialized: true).
Touched(c) == IF IsActive(c) THEN store ELSE [store EXCEPT ![Fresh] = Active(0)]

SerializeUserConst(user) == 1
\* passport.serializeUser((user, done) => done(null, user.id))
SerializeUser(user) == user.id

\* req.logIn: the request's session is regenerated (the old one destroyed,
\* a new identifier generated), session.passport.user = serializeUser(user),
\* and the session is saved.  old is the session the request came with.
LoggedIn(old, user) ==
    [store EXCEPT ![old] = IF @.st = "active" THEN Destroyed ELSE @,
                  ![Fresh] = Active(SerializeUser(user))]

\* A logout that destroys every session of the user, not only the request's.
LoggedOutEverywhere(c) ==
    [s \in SessionIds |->
        IF IsActive(s) /\ (s = c \/ (IsActive(c) /\ store[s].user = store[c].user))
        THEN Destroyed ELSE store[s]]

KeptSession(c) == store
\* req.logout(cb) then req.session.destroy(cb): the request's session leaves
\* the store; nothing is saved for the regenerated one.
LoggedOut(c) == IF IsActive(c) THEN [store EXCEPT ![c] = Destroyed] ELSE store

\* ------------------------------------------------------------- responses
\* done(err, null): passport hands the error to next(err); no error
\* middleware is installed, so Express answers 500.
ErrorResponse(route, sid, prof, why) ==
    Response(route, 500, "", 0, NoBody, sid, prof, NoRow, why)

\* A redirect to the dashboard that leaves the session parameter out.
SuccessRedirectNoSession(sid, prof, user, why) ==
    Response("/auth/openid/return", 302, Dashboard, 0, NoBody, 0, prof,
             user, why)

\* res.redirect(`${process.env.FRONTEND_URL}/dashboard?session=${req.sessionID}`)
SuccessRedirect(sid, prof, user, why) ==
    Response("/auth/openid/return", 302, Dashboard, sid, NoBody, 0, prof,
             user, why)

\* failureRedirect: '/login-failed'
FailureRedirect ==
    Response("/auth/openid/return", 302, LoginFailed, 0, NoBody, 0,
             NoProfile, NoRow, "rejected")

IsAuthenticatedAlways(user) == TRUE
\* req.isAuthenticated(): req.user is set
IsAuthenticated(user) == user # NoRow

\* user: { id: req.user.id, name: req.user.name, email: req.user.email,
\*         role: req.user.role }
UserJson(user) ==
    [id |-> user.id, name |-> user.name, email |-> user.email, role |-> user.role]

\* The GET /api/user handler, for a request that carried session cookie sid
\* and whose req.user is user (NoRow: not set).
ApiUserResponse(sid, user) ==
    IF IsAuthenticated(user)
    THEN Response("/api/user", 200, "", 0, UserJson(user), sid, NoProfile,
                  NoRow, "ok")
    ELSE Response("/api/user", 401, "", 0, NoBody, sid, NoProfile,
                  NoRow, "unauthenticated")

\* ------------------------------------------------------------- Init
Init ==
    /\ users = {}
    /\ nextId = 1
    /\ now = 0
    /\ store = [s \in SessionIds |-> Unused]
    /\ cb = [p \in Procs |-> Idle]
    /\ api = ApiIdle
    /\ resp = NoResponse

\* ------------------------------------------------------------- /login
\* GET /login: passport.authenticate redirects to the issuer; the handshake
\* state is kept in the request's session.
Login(c) ==
    /\ IsActive(c) \/ HasFresh
    /\ store' = Touched(c)
    /\ resp' = Response("/login", 302, IdpAuthorize, 0, NoBody, 0,
                        NoProfile, NoRow, "idp")
    /\ UNCHANGED <<users, nextId, now, cb, api>>

\* ------------------------------------------------------------- callback
\* POST /auth/openid/return whose handshake the strategy rejects (bad
\* signature, expired code, no handshake state in the session): self.fail,
\* hence failureRedirect.
CallbackRejected(c) ==
    /\ IsActive(c) \/ HasFresh
    /\ store' = Touched(c)
    /\ resp' = FailureRedirect
    /\ UNCHANGED <<users, nextId, now, cb, api>>

\* A catch block that swallows the error and reports a login all the same.
CaughtLogsIn(p, why) ==
    /\ HasFresh
    /\ store' = [store EXCEPT ![Fresh] = Active(0)]
    /\ resp' = SuccessRedirect(Fresh, NoProfile, NoRow, why)
    /\ cb' = [cb EXCEPT ![p] = Idle]
    /\ UNCHANGED <<users, nextId, now>>

\* A catch block that logs the error and never calls done.
CaughtSilently(p, why) ==
    /\ resp' = NoResponse
    /\ UNCHANGED <<users, nextId, now, store, cb>>

\* The catch block of the verify callback: done(err, null).
Caught(p, why) ==
    /\ resp' = ErrorResponse("/auth/openid/return", 0, NoProfile, why)
    /\ cb' = [cb EXCEPT ![p] = Idle]
    /\ UNCHANGED <<users, nextId, now, store>>

\* done(null, user): passport logs the user in (req.logIn) and the route
\* handler redirects to the frontend with the new session identifier.
\* The request does not record which session it came with: it was live when
\* the request arrived, so it is one of those handed out so far, live or
\* gone by now, and any of them may be the one regenerate destroys.
Done(p, prof, user, why) ==
    /\ HasFresh
    /\ \E old \in SessionIds :
          /\ store[old].st # "unused"
          /\ store' = LoggedIn(old, user)
    /\ resp' = SuccessRedirect(Fresh, prof, user, why)
    /\ cb' = [cb EXCEPT ![p] = Idle]

\* The verify callback awaits its next query.
Await(p, pc, prof, id) ==
    /\ cb' = [cb EXCEPT ![p] = [pc |-> pc, prof |-> prof, id |-> id]]
    /\ resp' = NoResponse
    /\ UNCHANGED <<users, nextId, now, store>>

\* POST /auth/openid/return with a valid handshake, which takes a live
\* session (the one GET /login left the handshake state in).  The verify
\* callback reports the missing identifiers, or runs its SELECT by azure_oid
\* and branches on the row.  Nothing the request does before the SELECT
\* executes reads or writes the users table, so its arrival and the SELECT
\* are one step.
Callback(p, prof) ==
    /\ cb[p].pc = "idle"
    /\ \E c \in SessionIds : IsActive(c)
    /\ LET user == SelectByOid(AzureOid(prof))
       IN  IF MissingIdentifier(prof)
           THEN /\ resp' = ErrorResponse("/auth/openid/return", 0, prof, "missing")
                /\ UNCHANGED <<users, nextId, now, store, cb>>
           ELSE \/ Caught(p, "dberror")
                \/ IF user = NoRow
                   THEN Await(p, "insert", prof, 0)
                   ELSE IF NeedsUpdate(user, Name(prof), Email(prof))
                   THEN Await(p, "update", prof, user.id)
                   ELSE /\ Done(p, prof, user, "unchanged")
                        /\ UNCHANGED <<users, nextId, now>>
    /\ UNCHANGED api

\* The INSERT returns: the new row, or the storage layer's rejection.
InsertDone(p) ==
    /\ cb[p].pc = "insert"
    /\ LET prof == cb[p].prof
           row  == InsertedRow(AzureOid(prof), Email(prof), Name(prof))
       IN  IF UniqueViolation(AzureOid(prof))
           THEN Caught(p, "unique")
           ELSE /\ nextId <= MaxUsers
                /\ ClockRead
                /\ users' = users \cup {row}
                /\ nextId' = nextId + 1
                /\ Done(p, prof, row, "created")
    /\ UNCHANGED api

\* The UPDATE ... WHERE id = user.id returns its row.
UpdateDone(p) ==
    /\ cb[p].pc = "update"
    /\ LET prof == cb[p].prof
           id   == cb[p].id
           row  == UpdatedRow(SelectById(id), Name(prof), Email(prof))
       IN  /\ ClockRead
           /\ users' = {IF u.id = id THEN UpdatedRow(u, Name(prof), Email(prof))
                        ELSE u : u \in users}
           /\ Done(p, prof, row, "updated")
    /\ UNCHANGED <<nextId, api>>

\* The INSERT or the UPDATE fails (the store cannot be reached).
QueryFail(p) ==
    /\ cb[p].pc \in {"insert", "update"}
    /\ Caught(p, "dberror")
    /\ UNCHANGED api

\* ------------------------------------------------------------- /api/user
\* GET /api/user arrives: express-session loads the session, passport.session
\* reads session.passport.user and, when it is set, starts deserializeUser;
\* without it the handler runs at once and answers 401.
ApiBegin(c) ==
    /\ api.pc = "idle"
    /\ IF PassportUser(c) # 0
       THEN /\ api' = [pc |-> "deserialize", sid |-> c, uid |-> PassportUser(c)]
            /\ resp' = NoResponse
            /\ UNCHANGED store
       ELSE /\ IsActive(c) \/ HasFresh
            /\ store' = Touched(c)
            /\ resp' = ApiUserResponse(c, NoRow)
            /\ UNCHANGED api
    /\ UNCHANGED <<users, nextId, now, cb>>

\* deserializeUser's SELECT by id returns: done(null, user || false), and
\* the handler answers for the req.user it got.
ApiDeserialized ==
    /\ api.pc = "deserialize"
    /\ resp' = ApiUserResponse(api.sid, SelectById(api.uid))
    /\ api' = ApiIdle
    /\ UNCHANGED <<users, nextId, now, store, cb>>

\* deserializeUser's query fails: done(err, null).
ApiDeserializeFail ==
    /\ api.pc = "deserialize"
    /\ resp' = ErrorResponse("/api/user", api.sid, NoProfile, "dberror")
    /\ api' = ApiIdle
    /\ UNCHANGED <<users, nextId, now, store, cb>>

\* ------------------------------------------------------------- /logout
\* A GET /logout that refuses a request no user is logged in on.
LogoutRequiresLogin(c) ==
    /\ store' = LoggedOut(c)
    /\ resp' = IF PassportUser(c) = 0
               THEN ErrorResponse("/logout", c, NoProfile, "logout")
               ELSE Response("/logout", 302, FrontendUrl, 0, NoBody, c,
                             NoProfile, SelectById(PassportUser(c)), "logout")
    /\ UNCHANGED <<users, nextId, now, cb, api>>

\* GET /logout: req.logout, req.session.destroy, redirect to the frontend.
\* The response records req.user, the row passport.session deserialized for
\* the request (none when its session is bound to no user).
Logout(c) ==
    /\ store' = LoggedOut(c)
    /\ resp' = Response("/logout", 302, FrontendUrl, 0, NoBody, c,
                        NoProfile, SelectById(PassportUser(c)), "logout")
    /\ UNCHANGED <<users, nextId, now, cb, api>>

\* On /login, /auth/openid/return and /logout passport.session deserializes
\* the session's user before the route runs; when that query fails the
\* request ends in done(err, null) and the route is not reached.
DeserializeFail(route) ==
    /\ \E c \in SessionIds :
          /\ PassportUser(c) # 0
          /\ resp' = ErrorResponse(route, c, NoProfile, "deserialize")
    /\ UNCHANGED <<users, nextId, now, store, cb, api>>

\* ------------------------------------------------------------- time
\* cookie.maxAge elapses: the store drops the session.
Expire(s) ==
    /\ IsActive(s)
    /\ store' = [store EXCEPT ![s] = Destroyed]
    /\ resp' = NoResponse
    /\ UNCHANGED <<users, nextId, now, cb, api>>


\* ------------------------------------------------------------- Next
Next ==
    \/ \E c \in Cookies : Login(c)
    \/ \E c \in Cookies : CallbackRejected(c)
    \/ \E p \in Procs, prof \in Profiles : Callback(p, prof)
    \/ \E p \in Procs : InsertDone(p)
    \/ \E p \in Procs : UpdateDone(p)
    \/ \E p \in Procs : QueryFail(p)
    \/ \E c \in Cookies : ApiBegin(c)
    \/ ApiDeserialized
    \/ ApiDeserializeFail
    \/ \E c \in Cookies : Logout(c)
    \/ \E route \in {"/login", "/auth/openid/return", "/logout"} :
          DeserializeFail(route)
    \/ \E s \in SessionIds : Expire(s)

Spec == Init /\ [][Next]_vars

\* ------------------------------------------------------------- liveness
\* The query a verify callback awaits completes or fails.
Completes(p) == InsertDone(p) \/ UpdateDone(p) \/ QueryFail(p)

\* The server under the assumption that every query a verify callback
\* awaits eventually completes or fails.
SpecLive == Init /\ [][Next]_vars /\ \A p \in Procs : WF_vars(Completes(p))

\* ------------------------------------------------------------- extraction
\* The verify callback on every profile of AllProfiles: the server after one
\* GET /login, then callbacks only, each with its INSERT or UPDATE.
InitExtract ==
    /\ users = {}
    /\ nextId = 1
    /\ now = 0
    /\ store = [s \in SessionIds |-> IF s = 1 THEN Active(0) ELSE Unused]
    /\ cb = [p \in Procs |-> Idle]
    /\ api = ApiIdle
    /\ resp = Response("/login", 302, IdpAuthorize, 0, NoBody, 0, NoProfile,
                       NoRow, "idp")

NextExtract ==
    \/ \E p \in Procs, prof \in AllProfiles : Callback(p, prof)
    \/ \E p \in Procs : InsertDone(p)
    \/ \E p \in Procs : UpdateDone(p)

SpecExtract == InitExtract /\ [][NextExtract]_vars

\* ===================================================================
\* Properties
\* ===================================================================

\* r is the redirect to the frontend dashboard that ends a successful
\* POST /auth/openid/return.
CallbackOk(r) ==
    r.route = "/auth/openid/return" /\ r.status = 302 /\ r.loc = Dashboard

\* r is the error that ends a POST /auth/openid/return one of whose queries
\* failed.
QueryFailed(r) ==
    r.route = "/auth/openid/return" /\ r.why \in {"dberror", "unique"}

\* C1: under any interleaving of callbacks, concurrent first-time callbacks
\* for one new subject included, the users table holds at most one row per
\* azure_oid, and exactly one for the subject of a callback that has just
\* completed successfully.
C1_OneUserPerSubject ==
    /\ \A u, v \in users : u.azure_oid = v.azure_oid => u = v
    /\ CallbackOk(resp) =>
          Cardinality(RowsByOid(AzureOid(resp.prof))) = 1

\* Two first-time callbacks for one subject both saw no row; the first INSERT
\* has returned and the other is still to execute.
C1_RaceWon ==
    /\ CallbackOk(resp) /\ resp.why = "created"
    /\ \E p \in Procs : /\ cb[p].pc = "insert"
                        /\ AzureOid(cb[p].prof) = AzureOid(resp.prof)

\* C2: the request whose INSERT the uniqueness constraint rejects looks the
\* row up again and completes successfully with the row the winner created;
\* it does not end in an error.
C2_LoserCompletes ==
    (resp.route = "/auth/openid/return" /\ resp.why = "unique") =>
        /\ CallbackOk(resp)
        /\ resp.user \in users

\* C3: a callback that is answered right after a successful callback of the
\* same identity is answered at once, without an INSERT or an UPDATE: the
\* users table, its id sequence and every updated_at are unchanged, and the
\* user it logs in has the id the first one logged in.
C3_Step ==
    LET ident == Ident(resp.prof)
        wrote == \E p \in Procs : /\ cb[p].pc = "idle"
                                  /\ cb'[p].pc # "idle"
                                  /\ Ident(cb'[p].prof) = ident
        again == cb' = cb /\ CallbackOk(resp') /\ Ident(resp'.prof) = ident
    IN  CallbackOk(resp) =>
          /\ ~wrote
          /\ again => /\ users' = users
                      /\ nextId' = nextId
                      /\ resp'.why = "unchanged"
                      /\ resp'.user.id = resp.user.id
                      /\ resp'.user = resp.user

C3_ResolveIdempotent == [][C3_Step]_vars

\* A callback found the row of its subject equal to its identity.
C3_SecondResolve ==
    /\ CallbackOk(resp) /\ resp.why = "unchanged"
    /\ resp.user \in users
    /\ resp.user.name = Name(resp.prof) /\ resp.user.email = Email(resp.prof)

\* C4: once the login of a successful callback has bound a session to a
\* user, every /api/user request that carries the session is answered with
\* the user of that id (or with the error of a failed users query, never
\* with another user and never as unauthenticated) for as long as the
\* session is live, whatever logins, logouts of other sessions and updates
\* of the row happen in between.
C4_Step ==
    /\ CallbackOk(resp') =>
          /\ resp'.session \in SessionIds
          /\ store[resp'.session].st = "unused"
          /\ store'[resp'.session] = Active(resp'.user.id)
          /\ resp'.user \in users'
    /\ \A s \in SessionIds :
          /\ (IsActive(s) /\ store'[s].st = "active") =>
                store'[s].user = store[s].user
          /\ (store[s].st = "unused" /\ store'[s].st = "active"
                /\ store'[s].user # 0) =>
                CallbackOk(resp') /\ resp'.session = s
    /\ (api.pc = "idle" /\ api'.pc = "deserialize") =>
          /\ IsActive(api'.sid)
          /\ api'.uid = store[api'.sid].user
    /\ ~(api.pc = "idle" /\ resp'.route = "/api/user"
           /\ PassportUser(resp'.sid) # 0)
    /\ (api.pc = "deserialize" /\ api'.pc = "idle") =>
          /\ resp'.route = "/api/user"
          /\ resp'.sid = api.sid
          /\ \/ resp'.status = 200 /\ resp'.body.id = api.uid
             \/ resp'.status = 500 /\ resp'.why = "dberror"

C4_SessionKeepsItsUser == [][C4_Step]_vars

\* /api/user answered a session with its user while another live session is
\* bound to another user.
C4_ValidatedAmongOthers ==
    /\ resp.route = "/api/user" /\ resp.status = 200
    /\ IsActive(resp.sid) /\ store[resp.sid].user = resp.body.id
    /\ \E s \in SessionIds :
          IsActive(s) /\ store[s].user \notin {0, resp.body.id}

\* C5: a session that GET /logout destroyed or that expired stays destroyed:
\* no step makes it live again, no /api/user request that carries it loads a
\* user, and each is answered 401.
C5_Step ==
    \A s \in SessionIds :
        /\ (resp'.route = "/logout" /\ resp'.status = 302 /\ resp'.sid = s) =>
              store'[s].st = "destroyed"
        /\ store[s].st = "destroyed" =>
              /\ store'[s].st = "destroyed"
              /\ PassportUser(s) = 0
              /\ ~(api.pc = "idle" /\ api'.pc = "deserialize" /\ api'.sid = s)
              /\ (api.pc = "idle" /\ resp'.route = "/api/user"
                    /\ resp'.sid = s) =>
                    resp'.status = 401 /\ resp'.body = NoBody

C5_DestroyedIsTerminal == [][C5_Step]_vars

\* /api/user answered 401 to a request that carried a destroyed session, and
\* the user it was open for has a live session again.
C5_DestroyedAnswered401 ==
    /\ resp.route = "/api/user" /\ resp.status = 401
    /\ resp.sid \in SessionIds /\ store[resp.sid].st = "destroyed"
    /\ \E s \in SessionIds : IsActive(s) /\ store[s].user # 0

\* C6: GET /api/user answers 401 without user fields when the request's
\* session is not a live session bound to a user, and 200 with the id, name,
\* email and role of the bound user's row when it is (500 when reading the
\* row fails); the 401 branch never carries user data.
C6_Step ==
    /\ (api.pc = "idle" /\ api'.pc = "deserialize") =>
          /\ PassportUser(api'.sid) # 0
          /\ api'.uid = PassportUser(api'.sid)
          /\ resp'.route = ""
    /\ resp'.route = "/api/user" =>
          /\ resp'.status \in {200, 401, 500}
          /\ resp'.status # 200 => resp'.body = NoBody
          /\ IF api.pc = "idle"
             THEN /\ PassportUser(resp'.sid) = 0
                  /\ resp'.status = 401
             ELSE /\ resp'.sid = api.sid
                  /\ resp'.status # 401
                  /\ resp'.status = 200 =>
                        \E u \in users : /\ u.id = api.uid
                                         /\ resp'.body = UserJson(u)

C6_ApiUserGate == [][C6_Step]_vars

\* /api/user answered 200 with the fields of a stored row.
C6_UserReturned ==
    /\ resp.route = "/api/user" /\ resp.status = 200
    /\ \E u \in users : resp.body = UserJson(u) /\ u.role = DefaultRole

\* C7: a callback whose profile lacks oid, or lacks all of upn, _json.email
\* and emails[0].value, ends in the missing-identifiers error before any
\* query is issued: no query of such a profile is ever awaited, no row is
\* created or updated, and no session is bound or logged in.
C7_Lacks(prof) ==
    \/ prof.oid = ""
    \/ prof.upn = "" /\ prof.jsonEmail = "" /\ prof.email0 = ""

C7_Step ==
    /\ \A p \in Procs : cb'[p].pc # "idle" => ~C7_Lacks(cb'[p].prof)
    /\ CallbackOk(resp') => ~C7_Lacks(resp'.prof)
    /\ (resp'.prof # NoProfile /\ C7_Lacks(resp'.prof)) =>
          /\ resp'.status = 500 /\ resp'.why = "missing"
          /\ resp'.session = 0 /\ resp'.user = NoRow
          /\ users' = users /\ nextId' = nextId /\ now' = now
          /\ store' = store /\ cb' = cb

C7_MissingIdentifierStops == [][C7_Step]_vars

\* Both kinds of incomplete profile were refused: this one has an oid and no
\* email source; rows exist, and none was made for it.
C7_Refused ==
    /\ resp.why = "missing"
    /\ resp.prof.oid # "" /\ C7_Lacks(resp.prof)
    /\ users # {}

\* C8: a callback that the verify callback aborts with the missing-
\* identifiers error, or with the error of a failed query, is answered with
\* the redirect to /login-failed, as a handshake the issuer rejected is.
C8_ErrorsRedirectToLoginFailed ==
    (resp.route = "/auth/openid/return" /\ resp.why \in {"missing", "dberror"})
        => resp = [FailureRedirect EXCEPT !.prof = resp.prof, !.why = resp.why]

\* C9: when the SELECT, the INSERT or the UPDATE of a callback fails, the
\* callback ends in an error: no session is bound or created, no row
\* changes, the request awaits no further query and no other request is
\* started or advanced, and the redirect to the dashboard is not sent.
C9_Step ==
    QueryFailed(resp') =>
        /\ ~CallbackOk(resp')
        /\ resp'.status \notin {0, 200}
        /\ resp'.session = 0 /\ resp'.user = NoRow /\ resp'.body = NoBody
        /\ store' = store
        /\ users' = users /\ nextId' = nextId /\ now' = now
        /\ \A p \in Procs : cb'[p] = cb[p] \/ cb'[p] = Idle
        /\ Cardinality({p \in Procs : cb'[p] # cb[p]}) <= 1

C9_QueryFailureSurfaces == [][C9_Step]_vars

\* A query of one callback failed while the other callback awaits its own,
\* with rows stored.
C9_FailedMidway ==
    /\ QueryFailed(resp) /\ resp.why = "dberror" /\ resp.status = 500
    /\ users # {}
    /\ \E p \in Procs : cb[p].pc # "idle"

\* C10: the UPDATE of a callback that found its subject's row with another
\* name or email sets the row's name and email to the identity's and its
\* updated_at to the time of the statement, keeps its id, azure_oid and
\* role, adds no row and leaves every other row alone; the user logged in is
\* the updated row.  Every callback that completes successfully logs in the
\* stored row of its subject, which carries its identity's name and email.
C10_Step ==
    /\ CallbackOk(resp') =>
          /\ resp'.user \in users'
          /\ resp'.user.azure_oid = AzureOid(resp'.prof)
          /\ resp'.user.email = Email(resp'.prof)
          /\ resp'.user.name = Name(resp'.prof)
    /\ \A p \in Procs :
          (cb[p].pc = "update" /\ cb'[p].pc = "idle" /\ ~QueryFailed(resp')) =>
              LET old == CHOOSE u \in users : u.id = cb[p].id
                  new == CHOOSE u \in users' : u.id = cb[p].id
              IN  /\ \E u \in users : u.id = cb[p].id
                  /\ CallbackOk(resp') /\ resp'.prof = cb[p].prof
                  /\ resp'.user = new
                  /\ new.name = Name(cb[p].prof)
                  /\ new.email = Email(cb[p].prof)
                  /\ new.updated_at = now' /\ now' >= old.updated_at
                  /\ new.id = old.id
                  /\ new.azure_oid = old.azure_oid
                  /\ new.role = old.role
                  /\ users' \ {new} = users \ {old}
                  /\ Cardinality(users') = Cardinality(users)
                  /\ nextId' = nextId
    /\ \A p \in Procs :
          (cb[p].pc = "idle" /\ cb'[p].pc = "update") =>
              \E u \in users : /\ u.id = cb'[p].id
                               /\ u.azure_oid = AzureOid(cb'[p].prof)
                               /\ \/ u.name # Name(cb'[p].prof)
                                  \/ u.email # Email(cb'[p].prof)

C10_DriftUpdatesRow == [][C10_Step]_vars

\* A callback updated the row of its subject: the row has the new name and
\* email and a later updated_at, and it is still the only row.
C10_Updated ==
    /\ CallbackOk(resp) /\ resp.why = "updated"
    /\ resp.user.name = "Bea" /\ resp.user.email = "b@x"
    /\ resp.user.updated_at = MaxTime
    /\ users = {resp.user}

\* C11: no step of any login, logout or API request removes a row of the
\* users table or changes a row's id, azure_oid or role: every row is still
\* there after the step, with at most its email, name and updated_at
\* rewritten, and no step other than the INSERT or the UPDATE of a callback
\* changes the table at all.
C11_Step ==
    /\ \A u \in users :
          \E v \in users' : /\ v.id = u.id
                            /\ v.azure_oid = u.azure_oid
                            /\ v.role = u.role
    /\ Cardinality(users') >= Cardinality(users)
    /\ users' # users =>
          \E p \in Procs : cb[p].pc \in {"insert", "update"} /\ cb'[p] = Idle

C11_RowsAreKept == [][C11_Step]_vars

\* A row that an UPDATE rewrote is in the table after a GET /logout that
\* destroyed a session.
C11_KeptThroughLogout ==
    /\ resp.route = "/logout" /\ resp.status = 302
    /\ resp.sid \in SessionIds /\ store[resp.sid].st = "destroyed"
    /\ \E u \in users : u.id = 1 /\ u.name = "Bea" /\ u.azure_oid = "o1"
    /\ Cardinality(users) = 2

\* C12: every session the store holds is bound to a user: no session is
\* created without a successful login and none is held while bound to no
\* user.
C12_EverySessionIsBound ==
    \A s \in SessionIds : store[s].st = "active" => store[s].user # 0

\* C13: GET /logout on a request whose session is bound to no user (no
\* session, a session never logged in, or one already destroyed, as on a
\* second logout) is not an error: it is answered with the redirect to the
\* frontend URL, its session is not live afterwards, and the users table,
\* every other session and every request in flight are unchanged.
C13_Step ==
    (resp'.route = "/logout" /\ PassportUser(resp'.sid) = 0) =>
        /\ resp'.status = 302 /\ resp'.loc = FrontendUrl
        /\ resp'.user = NoRow
        /\ resp'.sid \in SessionIds => store'[resp'.sid].st # "active"
        /\ \A s \in SessionIds \ {resp'.sid} : store'[s] = store[s]
        /\ users' = users /\ nextId' = nextId
        /\ cb' = cb /\ api' = api

C13_LogoutIdempotent == [][C13_Step]_vars

\* GET /logout answered a request that carried a destroyed session and had
\* no user, while a user is logged in on another session.
C13_LoggedOutAgain ==
    /\ resp.route = "/logout" /\ resp.status = 302 /\ resp.user = NoRow
    /\ resp.sid \in SessionIds /\ store[resp.sid].st = "destroyed"
    /\ \E s \in SessionIds : IsActive(s) /\ store[s].user # 0

\* C14: every row the users table gains or has rewritten in a step carries
\* the subject, email and name of the one identity whose INSERT or UPDATE
\* that step executed, so each row's (email, name) pair is the pair of a
\* single profile given for its subject, never the email of one and the
\* name of another; a step that fails writes nothing.
C14_Step ==
    /\ \A u \in users' :
          \/ u \in users
          \/ \E p \in Procs :
                /\ cb[p].pc \in {"insert", "update"} /\ cb'[p] = Idle
                /\ CallbackOk(resp')
                /\ u.azure_oid = AzureOid(cb[p].prof)
                /\ u.email = Email(cb[p].prof)
                /\ u.name = Name(cb[p].prof)
    /\ \A u \in users' :
          \E prof \in Profiles :
              /\ prof.oid = u.azure_oid
              /\ Ident(prof) = [oid |-> u.azure_oid, email |-> u.email,
                                name |-> u.name]
    /\ (resp'.status = 500 \/ QueryFailed(resp')) => users' = users

C15_RedirectNamesTheSession ==
    CallbackOk(resp) =>
        /\ resp.user \in users
        /\ resp.user.id # 0
        /\ resp.user.azure_oid = AzureOid(resp.prof)
        /\ IsActive(resp.session)
        /\ PassportUser(resp.session) = resp.user.id
        /\ SelectById(PassportUser(resp.session)) = resp.user

\* The redirect of a second login names session 3, bound to user 2, while
\* the session of the first login is live and bound to user 1.
C15_SecondLoginRedirected ==
    /\ CallbackOk(resp) /\ resp.session = 3 /\ resp.user.id = 2
    /\ store[3] = Active(2)
    /\ store[2] = Active(1)

\* C16: the verify callback goes on to the users table exactly for the
\* profiles with a non-empty oid and a non-empty upn, _json.email or
\* emails[0].value; the subject it looks up and stores is oid, the email it
\* stores is the first non-empty of upn, _json.email, emails[0].value in
\* that order, and the name it stores is displayName, or 'UniEats User' when
\* displayName is missing or empty.
C16_Usable(prof) ==
    /\ prof.oid # ""
    /\ prof.upn # "" \/ prof.jsonEmail # "" \/ prof.email0 # ""

C16_Extracted(prof, u) ==
    /\ u.azure_oid = prof.oid
    /\ prof.upn # "" => u.email = prof.upn
    /\ (prof.upn = "" /\ prof.jsonEmail # "") => u.email = prof.jsonEmail
    /\ (prof.upn = "" /\ prof.jsonEmail = "") => u.email = prof.email0
    /\ prof.displayName # "" => u.name = prof.displayName
    /\ prof.displayName = "" => u.name = "UniEats User"

C16_Step ==
    /\ \A p \in Procs :
          (cb[p].pc = "idle" /\ cb'[p].pc # "idle") =>
              /\ C16_Usable(cb'[p].prof)
              /\ cb'[p].pc = "insert" =>
                    \A u \in users : u.azure_oid # cb'[p].prof.oid
              /\ cb'[p].pc = "update" =>
                    \E u \in users : /\ u.id = cb'[p].id
                                     /\ u.azure_oid = cb'[p].prof.oid
    /\ (resp'.route = "/auth/openid/return" /\ resp'.prof # NoProfile) =>
          (resp'.why = "missing" <=> ~C16_Usable(resp'.prof))
    /\ CallbackOk(resp') => C16_Extracted(resp'.prof, resp'.user)
    /\ \A u \in users' \ users :
          \E p \in Procs : /\ cb[p].pc # "idle" /\ cb'[p].pc = "idle"
                           /\ C16_Extracted(cb[p].prof, u)

C16_IdentityExtraction == [][C16_Step]_vars

\* The row of a profile that has only the emails-list value and no
\* displayName is stored, and a profile that has an oid and no email source
\* has just been refused.
C16_LastSourceUsed ==
    /\ \E u \in users : /\ u.azure_oid = "o1" /\ u.email = "c@x"
                        /\ u.name = "UniEats User"
    /\ resp.why = "missing" /\ resp.prof.oid = "o1"

\* C17: a user may hold several live sessions at once, and a GET /logout
\* destroys only the session the request carried: every other session,
\* of the same user or of another, is live after it exactly if it was live
\* before, bound to the same user id, and the users table is untouched.
C17_Step ==
    (resp'.route = "/logout" /\ resp'.status = 302) =>
        /\ \A s \in SessionIds \ {resp'.sid} :
              /\ IsActive(s) <=> store'[s].st = "active"
              /\ store'[s].user = store[s].user
              /\ store'[s] = store[s]
        /\ users' = users /\ nextId' = nextId /\ now' = now

C17_LogoutLeavesOtherSessions == [][C17_Step]_vars

\* A user was logged out of one session and is still logged in on another.
C17_OtherSessionSurvives ==
    /\ resp.route = "/logout" /\ resp.status = 302
    /\ resp.user \in users
    /\ resp.sid \in SessionIds /\ store[resp.sid].st = "destroyed"
    /\ \E s \in SessionIds \ {resp.sid} : store[s] = Active(resp.user.id)

\* C18: the user GET /api/user returns is read from the users table by the
\* session's user id when the request is served, not kept from the login:
\* the answer carries that id and the name, email and role the row has at
\* that moment, so an older session of a user whose row a later login
\* updated is answered with the updated values.
C18_Step ==
    (api.pc = "deserialize" /\ resp'.route = "/api/user"
        /\ resp'.status = 200) =>
        /\ resp'.sid = api.sid
        /\ resp'.body.id = api.uid
        /\ \A u \in users :
              u.id = api.uid => /\ resp'.body.name = u.name
                                /\ resp'.body.email = u.email
                                /\ resp'.body.role = u.role
        /\ \E u \in users : u.id = api.uid

C18_UserIsReadPerRequest == [][C18_Step]_vars

\* A login on session 3 has just updated the user's row while a GET
\* /api/user on session 2, an older live session of that user, has loaded
\* the session and is about to read the row.
C18_OlderSessionSeesUpdate ==
    /\ CallbackOk(resp) /\ resp.why = "updated" /\ resp.session = 3
    /\ resp.user.name = "Bea" /\ resp.user.email = "b@x"
    /\ api.pc = "deserialize" /\ api.sid = 2 /\ api.uid = resp.user.id
    /\ store[2] = Active(resp.user.id)

\* C19: if every query a verify callback awaits eventually completes or
\* fails, every callback request that awaits a query is eventually
\* answered; the step that ends it sends exactly one response, either the
\* login of a user or an error, and ends no other request; and no request
\* waits for another: an awaited query can always complete or fail, and a
\* GET /logout can always be answered, whatever else is in flight.
C19_Step ==
    /\ \A p \in Procs :
          (cb[p].pc # "idle" /\ cb'[p].pc = "idle") =>
              /\ resp'.route = "/auth/openid/return"
              /\ CallbackOk(resp') \/ resp'.status = 500
              /\ CallbackOk(resp') <=> resp'.user # NoRow
              /\ \A q \in Procs \ {p} : cb'[q] = cb[q]
    /\ \A p \in Procs : cb'[p].pc # "idle" => cb[p].pc = "idle" \/ cb'[p] = cb[p]
    /\ resp'.route = "/logout" => resp'.status \in {302, 500}

C19_NotBlocked ==
    /\ \A p \in Procs : cb[p].pc # "idle" => ENABLED Completes(p)
    /\ \A c \in Cookies : ENABLED Logout(c)

C19_EveryRequestIsAnswered ==
    /\ \A p \in Procs : (cb[p].pc # "idle") ~> (cb[p].pc = "idle")
    /\ [][C19_Step]_vars
    /\ []C19_NotBlocked

\* Both callbacks have reported and none is in flight: one was answered with
\* the error of its rejected INSERT after the other had logged its user in
\* on a session that is still live.
C19_AllAnswered ==
    /\ \A p \in Procs : cb[p].pc = "idle"
    /\ resp.route = "/auth/openid/return" /\ resp.why = "unique"
    /\ \E s \in SessionIds : store[s].st = "destroyed"
    /\ \E s \in SessionIds : IsActive(s) /\ store[s].user # 0

=============================================================================
